---- MODULE Spec2Model ----
(***************************************************************************)
(* foundation-core: the schema-validated execution wrappers                *)
(* (ZodSchemaValidatedAction, ZodSchemaValidatedService), the helper       *)
(* OptionalFieldStripperHelper.stripEmptyStrings, and the part of the zod  *)
(* schema engine (safeParse of object schemas) the wrappers rely on.       *)
(***************************************************************************)
EXTENDS Integers, Sequences, FiniteSets, TLC

(***************************************************************************)
(* JavaScript values.  A property value is a string that encodes the value *)
(* with its type; an object is a function from its own keys to property    *)
(* values; a value handed around at top level (a payload, response.data)   *)
(* carries its type in t and, when an object, its properties in o.         *)
(***************************************************************************)
Undefined == "undefined"
Null == "null"
JsString(s) == "str:" \o s
EmptyString == JsString("")
JohnDoe == JsString("John Doe")
ADate == JsString("2024-01-01")
Num1 == "num:1"
Num123 == "num:123"
NestedEmpty == "obj:{note:''}"
NestedBad == "obj:{note:1}"

StringValues == {EmptyString, JohnDoe, ADate, JsString("invalid")}
NumMinus1 == "num:-1"
NumMinus123 == "num:-123"
NumberValues == {Num1, Num123, NumMinus1, NumMinus123}
ObjectValues == {NestedEmpty, NestedBad}

\* the properties of a nested object value
NestedProps(v) ==
    IF v = NestedEmpty THEN [note |-> EmptyString] ELSE [note |-> Num1]

NoProps == [k \in {} |-> Undefined]
UndefinedV == [t |-> "undefined", o |-> NoProps]
NullV == [t |-> "null", o |-> NoProps]
Obj(o) == [t |-> "object", o |-> o]
\* a string at top level; its spread (one property per character) is not
\* looked at by the model
StringV(v) == [t |-> "string", o |-> NoProps, v |-> v]

\* obj[key]: undefined when the object has no such own property
Get(o, key) == IF key \in DOMAIN o THEN o[key] ELSE Undefined

\* { ...value }: the own enumerable properties; none for undefined and null
Spread(value) == IF value.t = "object" THEN value.o ELSE NoProps

\* obj[key] = v on an object
Put(o, key, v) == [k \in DOMAIN o \cup {key} |-> IF k = key THEN v ELSE o[k]]

(***************************************************************************)
(* zod.  getParsedType, the issue messages of the default error map, and   *)
(* the parse of ZodString, ZodNumber, ZodOptional, ZodNullable, ZodObject. *)
(***************************************************************************)
ParsedType(v) ==
    CASE v = Undefined -> "undefined"
      [] v = Null -> "null"
      [] v \in StringValues -> "string"
      [] v \in NumberValues -> "number"
      [] OTHER -> "object"

\* invalid_type: "Required" for undefined, else "Expected X, received Y"
InvalidType(expected, received, path) ==
    [message |-> IF received = "undefined" THEN "Required"
                 ELSE "Expected " \o expected \o ", received " \o received,
     path |-> path]

IsDate(v) == v = ADate

ZString == [typeName |-> "ZodString", check |-> "none"]
ZDate == [typeName |-> "ZodString", check |-> "date"]
ZNumber == [typeName |-> "ZodNumber", check |-> "none"]
ZNested == [typeName |-> "ZodObject", check |-> "none"]
\* inner.transform(fn), a ZodEffects; the model has the transform n => -n
ZTransform(inner, fn) == [typeName |-> "ZodEffects", innerType |-> inner, transform |-> fn]
Negate(v) ==
    CASE v = Num1 -> NumMinus1
      [] v = NumMinus1 -> Num1
      [] v = Num123 -> NumMinus123
      [] OTHER -> Num123
ZOptional(inner) == [typeName |-> "ZodOptional", innerType |-> inner]
ZNullable(inner) == [typeName |-> "ZodNullable", innerType |-> inner]

OK(v) == [issues |-> <<>>, value |-> v]
INVALID(issues) == [issues |-> issues, value |-> Undefined]

RECURSIVE ParseType(_, _, _)
ParseType(schema, v, path) ==
    CASE schema.typeName = "ZodOptional" ->
            IF v = Undefined THEN OK(Undefined)
            ELSE ParseType(schema.innerType, v, path)
      [] schema.typeName = "ZodNullable" ->
            IF v = Null THEN OK(Null)
            ELSE ParseType(schema.innerType, v, path)
      [] schema.typeName = "ZodEffects" ->
            LET r == ParseType(schema.innerType, v, path)
            IN  IF r.issues = <<>> THEN OK(Negate(r.value)) ELSE r
      [] schema.typeName = "ZodString" ->
            IF ParsedType(v) # "string"
            THEN INVALID(<<InvalidType("string", ParsedType(v), path)>>)
            ELSE IF schema.check = "date" /\ ~IsDate(v)
            THEN INVALID(<<[message |-> "Invalid date", path |-> path]>>)
            ELSE OK(v)
      [] schema.typeName = "ZodNumber" ->
            IF ParsedType(v) # "number"
            THEN INVALID(<<InvalidType("number", ParsedType(v), path)>>)
            ELSE OK(v)
      [] OTHER ->
            \* a nested z.object({ note: z.string() })
            IF ParsedType(v) # "object"
            THEN INVALID(<<InvalidType("object", ParsedType(v), path)>>)
            ELSE LET r == ParseType(ZString, NestedProps(v).note, path \o <<"note">>)
                 IN  IF r.issues = <<>> THEN OK(v) ELSE INVALID(r.issues)

RECURSIVE Concat(_)
Concat(seqs) ==
    IF seqs = <<>> THEN <<>> ELSE Head(seqs) \o Concat(Tail(seqs))

ShapeKeys(schema) == {schema.keys[i] : i \in 1..Len(schema.keys)}

\* ZodObject: keys in declaration order, shape, and the unknownKeys policy
ZObject(keys, shape, unknownKeys) ==
    [typeName |-> "ZodObject", keys |-> keys, shape |-> shape,
     unknownKeys |-> unknownKeys]

\* schema.safeParse(value) of an object schema
SafeParseImpl(schema, value) ==
    IF value.t # "object"
    THEN [success |-> FALSE, data |-> UndefinedV,
          errors |-> <<InvalidType("object", value.t, <<>>)>>]
    ELSE
      LET o == value.o
          field == [k \in ShapeKeys(schema) |->
                       ParseType(schema.shape[k], Get(o, k), <<k>>)]
          extraKeys == DOMAIN o \ ShapeKeys(schema)
          fieldIssues ==
              Concat([i \in 1..Len(schema.keys) |-> field[schema.keys[i]].issues])
          unrecognized ==
              IF schema.unknownKeys = "strict" /\ extraKeys # {}
              THEN <<[message |-> "Unrecognized key(s) in object: 'extraField'",
                      path |-> <<>>]>>
              ELSE <<>>
          issues == fieldIssues \o unrecognized
          outKeys == {k \in ShapeKeys(schema) :
                         k \in DOMAIN o \/ field[k].value # Undefined}
                     \cup (IF schema.unknownKeys = "passthrough"
                           THEN extraKeys ELSE {})
          out == [k \in outKeys |->
                     IF k \in ShapeKeys(schema) THEN field[k].value ELSE o[k]]
      IN  IF issues = <<>>
          THEN [success |-> TRUE, data |-> Obj(out), errors |-> <<>>]
          ELSE [success |-> FALSE, data |-> UndefinedV, errors |-> issues]

SafeParse(schema, value) == SafeParseImpl(schema, value)

(***************************************************************************)
(* OptionalFieldStripperHelper.stripEmptyStrings                           *)
(***************************************************************************)
IsOptionalOrNullable(schemaField) ==
    schemaField.typeName = "ZodOptional" \/ schemaField.typeName = "ZodNullable"

RECURSIVE StripEntries(_, _, _)
StripEntries(cleanedData, schema, i) ==
    IF i > Len(schema.keys) THEN cleanedData
    ELSE LET key == schema.keys[i]
             next == IF IsOptionalOrNullable(schema.shape[key])
                        /\ Get(cleanedData, key) = EmptyString
                     THEN Put(cleanedData, key, Undefined)
                     ELSE cleanedData
         IN  StripEntries(next, schema, i + 1)

\* (variant: const cleanedData = data, no copy)
stripEmptyStrings_InPlace(data, schema) ==
    [data |-> Obj(StripEntries(Spread(data), schema, 1)),
     cleanedData |-> StripEntries(Spread(data), schema, 1)]

\* returns the record the caller passed as it is after the call (data) and
\* the returned record (cleanedData)
stripEmptyStrings(data, schema) ==
    [data |-> data,
     cleanedData |-> StripEntries(Spread(data), schema, 1)]

(***************************************************************************)
(* Bounds and the inputs the model draws from.                             *)
(***************************************************************************)
MaxCalls == 2
Calls == 1..MaxCalls

\* input schemas: the one of the test "should ignore empty strings for
\* optional fields", and a strict one with a nullable and a nested field
PersonSchema ==
    ZObject(<<"name", "email", "bookingDate">>,
            [name |-> ZString, email |-> ZOptional(ZString),
             bookingDate |-> ZOptional(ZDate)], "strip")
MemberSchema ==
    ZObject(<<"name", "nickname", "profile">>,
            [name |-> ZString, nickname |-> ZNullable(ZString),
             profile |-> ZOptional(ZNested)], "strict")
InputSchemas == {PersonSchema, MemberSchema}

\* an input schema that is no z.object: z.string(), which has no shape
ContactSchema == ZString
AnyInputSchemas == InputSchemas \cup {ContactSchema}

\* output schemas: z.object({ id: z.number() }) as is, and .passthrough()
IdSchema(unknownKeys) == ZObject(<<"id">>, [id |-> ZNumber], unknownKeys)
OutputSchemas == {IdSchema("strip"), IdSchema("passthrough")}

\* an output schema whose parse is not idempotent:
\* z.object({ id: z.number().transform((n) => -n) })
SignedIdSchema ==
    ZObject(<<"id">>, [id |-> ZTransform(ZNumber, "negate")], "strip")
TransformingSchemas == {IdSchema("strip"), SignedIdSchema}

\* the payloads a caller sends to a wrapper of each input schema
PersonPayloads ==
    { Obj([name |-> JohnDoe]),
      Obj([name |-> Num123]),
      Obj([name |-> JohnDoe, email |-> EmptyString, bookingDate |-> EmptyString]),
      Obj([name |-> Num123, bookingDate |-> JsString("invalid")]),
      Obj([name |-> JohnDoe, extraField |-> EmptyString]),
      UndefinedV }
MemberPayloads ==
    { Obj([name |-> JohnDoe]),
      Obj([name |-> JohnDoe, nickname |-> EmptyString]),
      Obj([name |-> JohnDoe, nickname |-> EmptyString, extraField |-> EmptyString]),
      Obj([name |-> JohnDoe, nickname |-> Null, profile |-> NestedBad]),
      Obj([name |-> JohnDoe, nickname |-> Null, profile |-> NestedEmpty]) }
ContactPayloads == { StringV(JohnDoe), Obj([name |-> JohnDoe]), UndefinedV }
Payloads(schema) ==
    CASE schema = PersonSchema -> PersonPayloads
      [] schema = MemberSchema -> MemberPayloads
      [] OTHER -> ContactPayloads

DataValues ==
    { Obj([id |-> Num1]),
      Obj([id |-> Num1, extraField |-> JohnDoe]),
      Obj([id |-> JsString("invalid")]),
      UndefinedV }

VALIDATION_ERROR == "VALIDATION_ERROR"
UpstreamMessage == [code |-> "UPSTREAM_ERROR", text |-> "upstream failed"]

\* the response records a wrapped action may resolve with: those of the
\* tests' mock actions, a failure without data, and records whose success
\* flag or messages disagree with their data
Responses ==
    { [success |-> TRUE, data |-> Obj([id |-> Num1]), messages |-> <<>>],
      [success |-> TRUE, data |-> Obj([id |-> Num1, extraField |-> JohnDoe]),
       messages |-> <<>>],
      [success |-> TRUE, data |-> Obj([id |-> JsString("invalid")]),
       messages |-> <<>>],
      [success |-> TRUE, data |-> Obj([id |-> Num1])],
      [success |-> FALSE, messages |-> <<UpstreamMessage>>],
      [success |-> FALSE, data |-> Obj([id |-> Num1]),
       messages |-> <<UpstreamMessage>>],
      [success |-> TRUE, data |-> Obj([id |-> Num1]),
       messages |-> <<UpstreamMessage>>] }

Errors == {"Error: boom"}
\* Object.entries(undefined)
TypeError == "TypeError: Cannot convert undefined or null to object"

(***************************************************************************)
(* State.  heap holds the response record objects (those the wrapped       *)
(* action resolved with and the literals execute returned); the other      *)
(* variables are, per call of execute, its locals and what it did.         *)
(***************************************************************************)
VARIABLES
    payloadSchema,      \* constructor argument
    objectSchema,       \* constructor argument (responseSchema of the service)
    pc,                 \* "idle", "awaiting", "returned", "rejected"
    convention,         \* "none", "action", "service"
    payload,            \* the caller's payload object, as it is now
    parsedPayload,      \* local parsedPayload
    response,           \* local response: heap ref and the record as resolved
                        \* (action), or the bare value (service)
    validatedResponse,  \* local validatedResponse / parsedResponse
    result,             \* what execute returned: heap ref and the record as
                        \* returned (action), or the parse result (service)
    thrown,             \* what execute rejected with
    invoked,            \* the payloads the wrapped unit's execute was called with
    trace,              \* the steps of the pipeline, in order
    heap,               \* response record objects by reference
    unitObjects,        \* references of the objects the wrapped action resolved with
    helperCall,         \* a direct call of stripEmptyStrings: arguments and outcome
    tool                \* the fields an ActionTool or ServiceTool adds to the wrapper

vars == <<payloadSchema, objectSchema, pc, convention, payload, parsedPayload,
          response, validatedResponse, result, thrown, invoked, trace, heap,
          unitObjects, helperCall, tool>>

NoParse == [success |-> FALSE, data |-> UndefinedV, errors |-> <<>>]
NoError == "none"

\* references: the record the wrapped action creates in call c, and the
\* literal execute creates in call c; a free cell holds no record
Refs == 1..(2 * MaxCalls)
UnitRef(c) == 2 * c - 1
LiteralRef(c) == 2 * c
Free == [free |-> TRUE]

NoResponse == [ref |-> 0, record |-> Free, value |-> UndefinedV]
NoResult == [ref |-> 0, record |-> Free, parsed |-> NoParse]
ActionResponse(ref, r) == [ref |-> ref, record |-> r, value |-> UndefinedV]
ServiceResponse(v) == [ref |-> 0, record |-> Free, value |-> v]
ActionResult(ref, r) == [ref |-> ref, record |-> r, parsed |-> NoParse]
ServiceResult(parsed) == [ref |-> 0, record |-> Free, parsed |-> parsed]

\* a plain wrapper has no tool fields
NoTool == [class |-> "none"]

NoHelperCall ==
    [done |-> FALSE, schema |-> PersonSchema, before |-> UndefinedV,
     data |-> UndefinedV, cleanedData |-> NoProps]

Idle ==
    /\ pc = [c \in Calls |-> "idle"]
    /\ convention = [c \in Calls |-> "none"]
    /\ payload = [c \in Calls |-> UndefinedV]
    /\ parsedPayload = [c \in Calls |-> NoParse]
    /\ response = [c \in Calls |-> NoResponse]
    /\ validatedResponse = [c \in Calls |-> NoParse]
    /\ result = [c \in Calls |-> NoResult]
    /\ thrown = [c \in Calls |-> NoError]
    /\ invoked = [c \in Calls |-> <<>>]
    /\ trace = [c \in Calls |-> <<>>]
    /\ heap = [r \in Refs |-> Free]
    /\ unitObjects = {}

Init ==
    /\ payloadSchema \in InputSchemas
    /\ objectSchema \in OutputSchemas
    /\ Idle
    /\ helperCall = NoHelperCall
    /\ tool = NoTool

(***************************************************************************)
(* ZodSchemaValidatedAction.execute                                        *)
(***************************************************************************)
RECURSIVE Join(_, _)
Join(path, sep) ==
    IF path = <<>> THEN ""
    ELSE IF Len(path) = 1 THEN Head(path)
    ELSE Head(path) \o sep \o Join(Tail(path), sep)

\* `${error.message} (at ${error.path.join('.')})`
MessageText(error) ==
    error.message \o " (at " \o Join(error.path, ".") \o ")"

\* (variant: no message at all)
ValidationMessages_None(errors) == <<>>

\* (variant: only the first issue is reported)
ValidationMessages_FirstOnly(errors) ==
    <<[code |-> VALIDATION_ERROR, text |-> MessageText(errors[1])]>>

\* error.errors.map((error) => ({ code, text }))
ValidationMessages(errors) ==
    [i \in 1..Len(errors) |->
        [code |-> VALIDATION_ERROR, text |-> MessageText(errors[i])]]

\* (variant: the literal says success: true)
FailureResponse_Success(errors) ==
    [success |-> TRUE, messages |-> ValidationMessages(errors)]

\* the literal returned when a stage fails
FailureResponse(errors) ==
    [success |-> FALSE, messages |-> ValidationMessages(errors)]

\* (variant: the payload is parsed as given, without normalization)
ActionParsePayload_NoStrip(schema, p) == SafeParse(schema, p)

\* the input stage: normalization, then the input schema's parse
ActionParsePayload(schema, p) ==
    SafeParse(schema, Obj(stripEmptyStrings(p, schema).cleanedData))

\* (variant: no early return on an input failure)
ActionInvokes_Always(parsed) == TRUE

\* whether execute goes on to the wrapped action
ActionInvokes(parsed) == parsed.success

\* the output stage parses response.data
ResponseData(r) == IF "data" \in DOMAIN r THEN r.data ELSE UndefinedV
ActionParseResponse(schema, r) == SafeParse(schema, ResponseData(r))

\* (variant: the output verdict is not looked at)
OutputFails_Never(validated) == FALSE

\* if (!validatedResponse.success)
OutputFails(validated) == ~validated.success

\* (variant: the validated data is not assigned)
ReassignData_Skipped(r, validated) == r

\* (variant: a new success record is built around the validated data)
ReassignData_Rebuilt(r, validated) ==
    [success |-> TRUE, data |-> validated.data, messages |-> <<>>]

\* response.data = validatedResponse.data; return response
ReassignData(r, validated) == Put(r, "data", validated.data)

\* (variant: the wrapped unit is invoked before the payload is validated)
StepsToAwait_InvokeFirst == <<"invoke", "validateInput">>

\* the steps of execute, in the order of its statements, up to the await
StepsToAwait == <<"validateInput", "invoke">>

\* Object.entries(schema.shape) throws when the schema has no shape
StripThrows(schema) == "shape" \notin DOMAIN schema

\* execute up to the await of the wrapped action
ActionExecute(c, p) ==
    /\ pc[c] = "idle"
    /\ convention' = [convention EXCEPT ![c] = "action"]
    /\ IF StripThrows(payloadSchema)
       THEN /\ payload' = [payload EXCEPT ![c] = p]
            /\ thrown' = [thrown EXCEPT ![c] = TypeError]
            /\ pc' = [pc EXCEPT ![c] = "rejected"]
            /\ UNCHANGED <<parsedPayload, invoked, trace, heap, result>>
       ELSE
         LET parsed == ActionParsePayload(payloadSchema, p)
         IN  /\ payload' = [payload EXCEPT ![c] = stripEmptyStrings(p, payloadSchema).data]
             /\ parsedPayload' = [parsedPayload EXCEPT ![c] = parsed]
             /\ IF ActionInvokes(parsed)
                THEN /\ invoked' = [invoked EXCEPT ![c] = Append(@, parsed.data)]
                     /\ trace' = [trace EXCEPT ![c] = StepsToAwait]
                     /\ pc' = [pc EXCEPT ![c] = "awaiting"]
                     /\ UNCHANGED <<heap, result>>
                ELSE /\ heap' = [heap EXCEPT ![LiteralRef(c)] = FailureResponse(parsed.errors)]
                     /\ result' = [result EXCEPT ![c] =
                                      ActionResult(LiteralRef(c), FailureResponse(parsed.errors))]
                     /\ trace' = [trace EXCEPT ![c] = <<"validateInput">>]
                     /\ pc' = [pc EXCEPT ![c] = "returned"]
                     /\ UNCHANGED invoked
             /\ UNCHANGED thrown
    /\ UNCHANGED <<payloadSchema, objectSchema, response, validatedResponse,
                   unitObjects, helperCall, tool>>

\* execute from the await on, the wrapped action having resolved with the
\* object ref of the heap h
ActionContinue(c, h, ref) ==
    LET validated == ActionParseResponse(objectSchema, h[ref])
    IN  /\ response' = [response EXCEPT ![c] = ActionResponse(ref, h[ref])]
        /\ validatedResponse' = [validatedResponse EXCEPT ![c] = validated]
        /\ trace' = [trace EXCEPT ![c] = Append(@, "validateOutput")]
        /\ pc' = [pc EXCEPT ![c] = "returned"]
        /\ unitObjects' = unitObjects \cup {ref}
        /\ IF OutputFails(validated)
           THEN /\ heap' = [h EXCEPT ![LiteralRef(c)] = FailureResponse(validated.errors)]
                /\ result' = [result EXCEPT ![c] =
                                 ActionResult(LiteralRef(c), FailureResponse(validated.errors))]
           ELSE /\ heap' = [h EXCEPT ![ref] = ReassignData(@, validated)]
                /\ result' = [result EXCEPT ![c] =
                                 ActionResult(ref, ReassignData(h[ref], validated))]
        /\ UNCHANGED <<payloadSchema, objectSchema, convention, payload,
                       parsedPayload, thrown, invoked, helperCall, tool>>

\* the wrapped action resolves with a new response record
ActionResumeFresh(c, r) ==
    /\ pc[c] = "awaiting"
    /\ convention[c] = "action"
    /\ ActionContinue(c, [heap EXCEPT ![UnitRef(c)] = r], UnitRef(c))

\* the wrapped action resolves with a record object it resolved with before
ActionResumeShared(c, ref) ==
    /\ pc[c] = "awaiting"
    /\ convention[c] = "action"
    /\ ref \in unitObjects
    /\ ActionContinue(c, heap, ref)

\* (variant: the rejection is caught and another error is thrown in its place)
Propagated_Replaced(e) == "Error: execute failed"

\* the await is in no try block: execute rejects with what it awaited
Propagated(e) == e

\* the wrapped unit's execute rejects: nothing catches it
WrappedThrows(c, e) ==
    /\ pc[c] = "awaiting"
    /\ thrown' = [thrown EXCEPT ![c] = Propagated(e)]
    /\ pc' = [pc EXCEPT ![c] = "rejected"]
    /\ UNCHANGED <<payloadSchema, objectSchema, convention, payload,
                   parsedPayload, response, validatedResponse, result, invoked,
                   trace, heap, unitObjects, helperCall, tool>>

(***************************************************************************)
(* ZodSchemaValidatedService.execute                                       *)
(***************************************************************************)
\* (variant: the payload is normalized first, as the Action convention does)
ServiceParsePayload_Normalized(schema, p) == ActionParsePayload(schema, p)

\* this.payloadSchema.safeParse(payload)
ServiceParsePayload(schema, p) == SafeParse(schema, p)

ServiceExecute(c, p) ==
    /\ pc[c] = "idle"
    /\ LET parsed == ServiceParsePayload(payloadSchema, p)
       IN  /\ convention' = [convention EXCEPT ![c] = "service"]
           /\ payload' = [payload EXCEPT ![c] = p]
           /\ parsedPayload' = [parsedPayload EXCEPT ![c] = parsed]
           /\ IF parsed.success
              THEN /\ invoked' = [invoked EXCEPT ![c] = Append(@, parsed.data)]
                   /\ trace' = [trace EXCEPT ![c] = StepsToAwait]
                   /\ pc' = [pc EXCEPT ![c] = "awaiting"]
                   /\ UNCHANGED result
              ELSE /\ result' = [result EXCEPT ![c] = ServiceResult(parsed)]
                   /\ trace' = [trace EXCEPT ![c] = <<"validateInput">>]
                   /\ pc' = [pc EXCEPT ![c] = "returned"]
                   /\ UNCHANGED invoked
    /\ UNCHANGED <<payloadSchema, objectSchema, response, validatedResponse,
                   thrown, heap, unitObjects, helperCall, tool>>

\* the wrapped service resolves with the bare value v
ServiceResume(c, v) ==
    /\ pc[c] = "awaiting"
    /\ convention[c] = "service"
    /\ LET parsedResponse == SafeParse(objectSchema, v)
       IN  /\ response' = [response EXCEPT ![c] = ServiceResponse(v)]
           /\ validatedResponse' = [validatedResponse EXCEPT ![c] = parsedResponse]
           /\ result' = [result EXCEPT ![c] = ServiceResult(parsedResponse)]
           /\ trace' = [trace EXCEPT ![c] = Append(@, "validateOutput")]
           /\ pc' = [pc EXCEPT ![c] = "returned"]
    /\ UNCHANGED <<payloadSchema, objectSchema, convention, payload,
                   parsedPayload, thrown, invoked, heap, unitObjects, helperCall, tool>>

Next ==
    \/ \E c \in Calls, p \in Payloads(payloadSchema) : ActionExecute(c, p)
    \/ \E c \in Calls, r \in Responses : ActionResumeFresh(c, r)
    \/ \E c \in Calls, ref \in unitObjects : ActionResumeShared(c, ref)
    \/ \E c \in Calls, p \in Payloads(payloadSchema) : ServiceExecute(c, p)
    \/ \E c \in Calls, v \in DataValues : ServiceResume(c, v)
    \/ \E c \in Calls, e \in Errors : WrappedThrows(c, e)

Spec == Init /\ [][Next]_vars

(***************************************************************************)
(* The Action wrapper constructed with any ZodSchema as its input schema,  *)
(* as its type parameter TypePayloadSchema extends ZodSchema admits.       *)
(***************************************************************************)
InitAnySchema ==
    /\ payloadSchema \in AnyInputSchemas
    /\ objectSchema \in OutputSchemas
    /\ Idle
    /\ helperCall = NoHelperCall
    /\ tool = NoTool

NextAnySchema ==
    \/ \E c \in Calls, p \in Payloads(payloadSchema) : ActionExecute(c, p)
    \/ \E c \in Calls, r \in Responses : ActionResumeFresh(c, r)
    \/ \E c \in Calls, ref \in unitObjects : ActionResumeShared(c, ref)
    \/ \E c \in Calls, e \in Errors : WrappedThrows(c, e)

SpecAnySchema == InitAnySchema /\ [][NextAnySchema]_vars

(***************************************************************************)
(* The wrappers constructed with an output schema that transforms, as      *)
(* TypeObjectSchema extends ZodSchema admits; and the same with the calls  *)
(* issued one after the other.                                             *)
(***************************************************************************)
InitTransform ==
    /\ payloadSchema \in InputSchemas
    /\ objectSchema \in TransformingSchemas
    /\ Idle
    /\ helperCall = NoHelperCall
    /\ tool = NoTool

SpecTransform == InitTransform /\ [][Next]_vars

\* the caller awaits each call before it issues the next
NoCallInFlight == \A d \in Calls : pc[d] # "awaiting"

NextSequential ==
    \/ NoCallInFlight /\ \E c \in Calls, p \in Payloads(payloadSchema) : ActionExecute(c, p)
    \/ \E c \in Calls, r \in Responses : ActionResumeFresh(c, r)
    \/ \E c \in Calls, ref \in unitObjects : ActionResumeShared(c, ref)
    \/ NoCallInFlight /\ \E c \in Calls, p \in Payloads(payloadSchema) : ServiceExecute(c, p)
    \/ \E c \in Calls, v \in DataValues : ServiceResume(c, v)
    \/ \E c \in Calls, e \in Errors : WrappedThrows(c, e)

SpecSequential == InitTransform /\ [][NextSequential]_vars

(***************************************************************************)
(* ActionTool and ServiceTool: subclasses of the two wrappers that add the *)
(* fields name, description and parameters and define no method of their   *)
(* own besides the constructor.                                            *)
(***************************************************************************)
ToolClasses == {"ActionTool", "ServiceTool"}

\* the methods a class defines itself
OwnMethods(class) ==
    IF class \in ToolClasses THEN {"constructor"} ELSE {"constructor", "execute"}

\* (variant: each tool class extends the other convention's wrapper)
Super_Crossed(class) ==
    IF class = "ActionTool" THEN "ZodSchemaValidatedService"
    ELSE "ZodSchemaValidatedAction"

\* class ActionTool extends ZodSchemaValidatedAction, and likewise ServiceTool
Super(class) ==
    IF class = "ActionTool" THEN "ZodSchemaValidatedAction"
    ELSE "ZodSchemaValidatedService"

\* the class whose method a call of obj.method runs
RECURSIVE Resolve(_, _)
Resolve(class, method) ==
    IF method \in OwnMethods(class) THEN class
    ELSE Resolve(Super(class), method)

\* the name and description the tools are constructed with
ToolArguments(class) ==
    IF class = "ActionTool"
    THEN [name |-> "CustomActionTool",
          description |-> "A custom tool for executing an action"]
    ELSE [name |-> "CustomServiceTool",
          description |-> "A custom tool for executing a service"]

\* new ActionTool(name, description, payloadSchema, responseSchema, action)
NewTool(class, name, description, schema) ==
    [class |-> class, name |-> name, description |-> description,
     parameters |-> schema]

InitTool ==
    /\ payloadSchema \in InputSchemas
    /\ objectSchema \in OutputSchemas
    /\ Idle
    /\ helperCall = NoHelperCall
    /\ \E class \in ToolClasses :
          tool = NewTool(class, ToolArguments(class).name,
                         ToolArguments(class).description, payloadSchema)

\* tool.execute(p): the execute of the wrapper class the tool extends
ToolExecute(c, p) ==
    IF Resolve(tool.class, "execute") = "ZodSchemaValidatedAction"
    THEN ActionExecute(c, p)
    ELSE ServiceExecute(c, p)

NextTool ==
    \/ \E c \in Calls, p \in Payloads(payloadSchema) : ToolExecute(c, p)
    \/ \E c \in Calls, r \in Responses : ActionResumeFresh(c, r)
    \/ \E c \in Calls, ref \in unitObjects : ActionResumeShared(c, ref)
    \/ \E c \in Calls, v \in DataValues : ServiceResume(c, v)
    \/ \E c \in Calls, e \in Errors : WrappedThrows(c, e)

SpecTool == InitTool /\ [][NextTool]_vars

(***************************************************************************)
(* stripEmptyStrings called directly, on records and schemas drawn from    *)
(* bounded sets.                                                           *)
(***************************************************************************)
Absent == "absent"
HelperKeys == {"name", "email", "nickname", "profile", "extraField"}
HelperOptions(k) ==
    CASE k = "name" -> {Absent, EmptyString, JohnDoe}
      [] k = "email" -> {Absent, EmptyString, JohnDoe}
      [] k = "nickname" -> {Absent, EmptyString, Null}
      [] k = "profile" -> {Absent, EmptyString, NestedEmpty}
      [] OTHER -> {Absent, EmptyString}
HelperValues == UNION {HelperOptions(k) : k \in HelperKeys}
HelperRecords ==
    { Obj([k \in {j \in HelperKeys : f[j] # Absent} |-> f[k]]) :
        f \in {g \in [HelperKeys -> HelperValues] :
                 \A k \in HelperKeys : g[k] \in HelperOptions(k)} }

InitHelper ==
    /\ payloadSchema = PersonSchema
    /\ objectSchema = IdSchema("strip")
    /\ Idle
    /\ \E d \in HelperRecords, schema \in InputSchemas :
          helperCall = [NoHelperCall EXCEPT !.schema = schema, !.before = d, !.data = d]
    /\ tool = NoTool

HelperStrip ==
    /\ ~helperCall.done
    /\ LET r == stripEmptyStrings(helperCall.data, helperCall.schema)
       IN  helperCall' = [helperCall EXCEPT !.done = TRUE, !.data = r.data,
                                            !.cleanedData = r.cleanedData]
    /\ UNCHANGED <<payloadSchema, objectSchema, pc, convention, payload,
                   parsedPayload, response, validatedResponse, result, thrown,
                   invoked, trace, heap, unitObjects, tool>>

NextHelper == HelperStrip

SpecHelper == InitHelper /\ [][NextHelper]_vars

(***************************************************************************)
(* Views used by the properties.                                           *)
(***************************************************************************)
Started(c) == pc[c] # "idle"
ActionReturned(c) == convention[c] = "action" /\ pc[c] = "returned"
Resolved(c) == response[c] # NoResponse

\* the record execute returned, as it was when it returned
Returned(c) == result[c].record
HasData(r) == "data" \in DOMAIN r
Messages(r) == IF "messages" \in DOMAIN r THEN r.messages ELSE <<>>

\* the engine's verdicts, taken from the arguments of the call
InputVerdict(c) ==
    IF convention[c] = "action"
    THEN SafeParseImpl(payloadSchema,
                       Obj(StripEntries(Spread(payload[c]), payloadSchema, 1)))
    ELSE SafeParseImpl(payloadSchema, payload[c])
OutputVerdict(c) ==
    IF convention[c] = "action"
    THEN SafeParseImpl(objectSchema, ResponseData(response[c].record))
    ELSE SafeParseImpl(objectSchema, response[c].value)

\* C1: in both conventions, a call whose input validation fails never
\* invokes the wrapped unit; every invocation comes after that call's
\* successful input validation, and the payload the wrapped unit is given is
\* one the input schema accepts.
C1_NoInvocationOnInvalidInput ==
    \A c \in Calls :
        Started(c) =>
            LET accepted == InputVerdict(c).success
            IN  /\ ~accepted => invoked[c] = <<>>
                /\ invoked[c] # <<>> =>
                      /\ accepted
                      /\ Len(trace[c]) >= 2
                      /\ trace[c][1] = "validateInput" /\ trace[c][2] = "invoke"
                      /\ \A i \in 1..Len(invoked[c]) :
                            SafeParseImpl(payloadSchema, invoked[c][i]).success

C1_Witness ==
    /\ \E c \in Calls : /\ convention[c] = "action" /\ pc[c] = "returned"
                        /\ ~InputVerdict(c).success /\ invoked[c] = <<>>
    /\ \E c \in Calls : convention[c] = "service" /\ Len(invoked[c]) = 1

\* C2 as stated: valid input and valid wrapped data give success = true, the
\* validated data, and no messages, whatever else the wrapped unit returned.
C2_Original ==
    \A c \in Calls :
        (ActionReturned(c) /\ Resolved(c)) =>
            LET out == OutputVerdict(c)
            IN  out.success =>
                    /\ Returned(c).success = TRUE
                    /\ HasData(Returned(c))
                    /\ Returned(c).data = out.data
                    /\ Messages(Returned(c)) = <<>>

\* C2 amended: valid input, valid wrapped data, and a wrapped response that
\* itself reports success = true with no messages, give success = true, the
\* output schema's validated value as data, and no messages.
C2_ValidInValidOut ==
    \A c \in Calls :
        (/\ ActionReturned(c) /\ Resolved(c)
         /\ response[c].record.success = TRUE
         /\ Messages(response[c].record) = <<>>) =>
            LET out == OutputVerdict(c)
            IN  out.success =>
                    /\ Returned(c).success = TRUE
                    /\ HasData(Returned(c))
                    /\ Returned(c).data = out.data
                    /\ Messages(Returned(c)) = <<>>

C2_Witness ==
    \E c \in Calls :
        /\ ActionReturned(c) /\ Resolved(c)
        /\ OutputVerdict(c).success
        /\ response[c].record.success = TRUE
        /\ Messages(response[c].record) = <<>>
        /\ ResponseData(response[c].record) # OutputVerdict(c).data
        /\ Returned(c).data = Obj([id |-> Num1])

\* C3: valid input and wrapped data that violates the output schema give
\* success = false, no data, and exactly the messages of the output-schema
\* issues, in a record that is not the wrapped unit's; the wrapped unit's
\* own success flag and messages are not in it.
C3_InvalidOutputDiscardsUpstream ==
    \A c \in Calls :
        (ActionReturned(c) /\ Resolved(c)) =>
            LET out == OutputVerdict(c)
            IN  ~out.success =>
                    /\ DOMAIN Returned(c) = {"success", "messages"}
                    /\ Returned(c).success = FALSE
                    /\ Len(Returned(c).messages) = Len(out.errors)
                    /\ \A i \in 1..Len(Returned(c).messages) :
                          /\ Returned(c).messages[i].code = VALIDATION_ERROR
                          /\ Returned(c).messages[i].text = MessageText(out.errors[i])
                    /\ result[c].ref # response[c].ref

C3_Witness ==
    \E c \in Calls :
        /\ ActionReturned(c) /\ Resolved(c) /\ ~OutputVerdict(c).success
        /\ response[c].record.success = FALSE
        /\ Messages(response[c].record) = <<UpstreamMessage>>
        /\ Returned(c).messages # <<UpstreamMessage>>

\* data is present and valid per the output schema
DataValid(r) == HasData(r) /\ SafeParseImpl(objectSchema, r.data).success

\* C4 as stated: success is true iff data is present and valid per the
\* output schema.
C4_Original ==
    \A c \in Calls :
        ActionReturned(c) =>
            (Returned(c).success = TRUE <=> DataValid(Returned(c)))

\* C4 amended: success is true iff data is present and valid per the output
\* schema and the wrapped unit's own response reported success = true; the
\* data is then the output schema's validated value.
C4_SuccessIffValidDataAndUpstreamSuccess ==
    \A c \in Calls :
        ActionReturned(c) =>
            /\ Returned(c).success = TRUE
                 <=> /\ Resolved(c)
                     /\ response[c].record.success = TRUE
                     /\ DataValid(Returned(c))
            /\ Returned(c).success = TRUE =>
                  Returned(c).data = OutputVerdict(c).data

C4_Witness ==
    /\ \E c \in Calls : ActionReturned(c) /\ Returned(c).success = TRUE
    /\ \E c \in Calls : /\ ActionReturned(c) /\ Resolved(c)
                        /\ ~OutputVerdict(c).success
                        /\ response[c].record.success = TRUE

\* C5 as stated: messages is non-empty iff success is false.
C5_Original ==
    \A c \in Calls :
        ActionReturned(c) =>
            (Messages(Returned(c)) # <<>> <=> Returned(c).success = FALSE)

\* the wrapped unit's response itself has messages iff it reports failure
UpstreamConsistent(r) == Messages(r) # <<>> <=> r.success = FALSE

\* C5 amended: messages is non-empty iff success is false, for any payload
\* and any response of the wrapped unit that itself has non-empty messages
\* iff its success is false.
C5_MessagesIffFailure ==
    \A c \in Calls :
        (ActionReturned(c) /\ (Resolved(c) => UpstreamConsistent(response[c].record))) =>
            (Messages(Returned(c)) # <<>> <=> Returned(c).success = FALSE)

C5_Witness ==
    /\ \E c \in Calls : /\ ActionReturned(c) /\ ~Resolved(c)
                        /\ Messages(Returned(c)) # <<>>
    /\ \E c \in Calls : /\ ActionReturned(c) /\ Resolved(c)
                        /\ UpstreamConsistent(response[c].record)
                        /\ Returned(c).success = TRUE

\* the issues of the stage that failed in call c: those of the input when
\* the wrapped action was never reached, else those of the output
FailingIssues(c) ==
    IF Resolved(c) THEN OutputVerdict(c).errors ELSE InputVerdict(c).errors
ValidationFailed(c) == ActionReturned(c) /\ FailingIssues(c) # <<>>

\* C6 as stated: the text of the message of an issue is
\* "<message> (at <path joined by '.'>)" when the issue's path is non-empty
\* and the bare issue message when the path is empty.
C6_Claim ==
    \A c \in Calls :
        ActionReturned(c) =>
            LET issues == FailingIssues(c)
            IN  issues # <<>> =>
                    /\ Len(Returned(c).messages) = Len(issues)
                    /\ \A i \in 1..Len(issues) :
                          Returned(c).messages[i].text =
                             IF issues[i].path = <<>> THEN issues[i].message
                             ELSE issues[i].message \o " (at "
                                     \o Join(issues[i].path, ".") \o ")"

\* C7: a validation failure's messages are one per issue of the failing
\* stage, in the engine's order, each with code VALIDATION_ERROR; the issues
\* of the other stage are not among them.
C7_OneMessagePerIssue ==
    \A c \in Calls :
        ActionReturned(c) =>
            LET issues == FailingIssues(c)
            IN  /\ issues # <<>> =>
                      /\ DOMAIN Returned(c) = {"success", "messages"}
                      /\ Len(Returned(c).messages) = Len(issues)
                      /\ \A i \in 1..Len(issues) :
                            /\ Returned(c).messages[i].code = VALIDATION_ERROR
                            /\ Returned(c).messages[i].text = MessageText(issues[i])
                /\ Resolved(c) => InputVerdict(c).errors = <<>>

C7_Witness ==
    /\ \E c \in Calls : /\ ValidationFailed(c) /\ ~Resolved(c)
                        /\ Len(Returned(c).messages) = 2
                        /\ Returned(c).messages[1] # Returned(c).messages[2]
    /\ \E c \in Calls : ValidationFailed(c) /\ Resolved(c)

\* C8 as stated: data of a result holds only fields the output schema
\* declares, for every output schema.
C8_Claim ==
    \A c \in Calls :
        (ActionReturned(c) /\ HasData(Returned(c))) =>
            DOMAIN Returned(c).data.o \subseteq ShapeKeys(objectSchema)

\* the fields of the payload C9 is about: declared optional, constrained
\* only to be a string or a date, and holding ""
IsOptionalStringOrDate(schemaField) ==
    /\ schemaField.typeName = "ZodOptional"
    /\ schemaField.innerType \in {ZString, ZDate}
EmptyOptionals(schema, p) ==
    {k \in ShapeKeys(schema) :
        IsOptionalStringOrDate(schema.shape[k]) /\ Get(Spread(p), k) = EmptyString}
OthersValid(schema, p) ==
    /\ p.t = "object"
    /\ \A k \in ShapeKeys(schema) \ EmptyOptionals(schema, p) :
          ParseType(schema.shape[k], Get(p.o, k), <<k>>).issues = <<>>
    /\ schema.unknownKeys = "strict" => DOMAIN p.o \subseteq ShapeKeys(schema)

\* C9: a payload with "" in optional string or date fields, its other fields
\* valid, passes input validation, and the payload handed to the wrapped
\* action has no value for those fields.
C9_EmptyOptionalIgnored ==
    \A c \in Calls :
        (/\ convention[c] = "action"
         /\ EmptyOptionals(payloadSchema, payload[c]) # {}
         /\ OthersValid(payloadSchema, payload[c])) =>
            /\ parsedPayload[c].success
            /\ Len(invoked[c]) = 1
            /\ \A k \in EmptyOptionals(payloadSchema, payload[c]) :
                  Get(invoked[c][1].o, k) = Undefined

C9_Witness ==
    \E c \in Calls :
        /\ convention[c] = "action"
        /\ EmptyOptionals(payloadSchema, payload[c]) = {"email", "bookingDate"}
        /\ OthersValid(payloadSchema, payload[c])
        /\ Len(invoked[c]) = 1

\* C10: stripEmptyStrings leaves the record it is given unchanged and
\* returns a copy that differs from it only in top-level fields the schema
\* declares optional or nullable and whose value is ""; nested objects are
\* the same.
C10_StripFrame ==
    helperCall.done =>
        LET before == helperCall.before.o
            after == helperCall.cleanedData
            schema == helperCall.schema
        IN  /\ helperCall.data = helperCall.before
            /\ DOMAIN after = DOMAIN before
            /\ \A k \in DOMAIN before :
                  after[k] # before[k] =>
                      /\ k \in ShapeKeys(schema)
                      /\ schema.shape[k].typeName \in {"ZodOptional", "ZodNullable"}
                      /\ before[k] = EmptyString

C10_Witness ==
    /\ helperCall.done
    /\ helperCall.schema = MemberSchema
    /\ Get(helperCall.cleanedData, "nickname") = Undefined
    /\ Get(helperCall.before.o, "nickname") = EmptyString
    /\ Get(helperCall.cleanedData, "name") = EmptyString
    /\ Get(helperCall.cleanedData, "extraField") = EmptyString
    /\ Get(helperCall.cleanedData, "profile") = NestedEmpty

\* C11: in both conventions, a call in which the wrapped unit's execute
\* rejected has rejected with that error; it returned no result, ran no
\* output validation, and invoked the wrapped unit once, then and ever after.
C11_WrappedErrorPropagates ==
    \A c \in Calls :
        /\ thrown[c] # NoError <=> pc[c] = "rejected"
        /\ pc[c] = "rejected" =>
              /\ thrown[c] \in Errors
              /\ result[c] = NoResult
              /\ response[c] = NoResponse
              /\ validatedResponse[c] = NoParse
              /\ trace[c] = <<"validateInput", "invoke">>
              /\ Len(invoked[c]) = 1

C11_Witness ==
    /\ \E c \in Calls : /\ convention[c] = "action" /\ pc[c] = "rejected"
                        /\ thrown[c] = "Error: boom"
    /\ \E c \in Calls : /\ convention[c] = "service" /\ pc[c] = "rejected"
                        /\ thrown[c] = "Error: boom"

\* C12 as stated: in the Action convention execute rejects only when the
\* wrapped unit's execute did; a call that did not reach the wrapped unit
\* returned a {success: false, messages} record, and so did a call whose
\* wrapped response has data the output schema rejects.
C12_Claim ==
    \A c \in Calls :
        (convention[c] = "action" /\ Started(c)) =>
            /\ pc[c] = "rejected" => Len(invoked[c]) = 1
            /\ invoked[c] = <<>> =>
                  /\ pc[c] = "returned"
                  /\ Returned(c).success = FALSE
                  /\ Messages(Returned(c)) # <<>>
            /\ (Resolved(c) /\ ~validatedResponse[c].success) =>
                  /\ pc[c] = "returned"
                  /\ Returned(c).success = FALSE
                  /\ Messages(Returned(c)) # <<>>

\* C13: a returned call of the Service convention has as its result the
\* input schema's failure result for the payload as given, the wrapped
\* service not invoked, when the input schema rejects the payload as given;
\* else the output schema's validation result of the value the wrapped
\* service returned, the service invoked once with the input schema's
\* parsed payload.
C13_ServiceReference ==
    \A c \in Calls :
        (convention[c] = "service" /\ pc[c] = "returned") =>
            LET input == SafeParseImpl(payloadSchema, payload[c])
            IN  IF ~input.success
                THEN /\ result[c].parsed = input
                     /\ invoked[c] = <<>>
                     /\ trace[c] = <<"validateInput">>
                ELSE /\ invoked[c] = <<input.data>>
                     /\ trace[c] = <<"validateInput", "invoke", "validateOutput">>
                     /\ result[c].parsed =
                           SafeParseImpl(objectSchema, response[c].value)

C13_Witness ==
    /\ \E c \in Calls :
          /\ convention[c] = "service" /\ pc[c] = "returned"
          /\ payload[c] = Obj([name |-> JohnDoe, email |-> EmptyString,
                               bookingDate |-> EmptyString])
          /\ result[c].parsed.errors =
                <<[message |-> "Invalid date", path |-> <<"bookingDate">>]>>
    /\ \E c \in Calls :
          /\ convention[c] = "service" /\ pc[c] = "returned"
          /\ response[c].value = Obj([id |-> Num1, extraField |-> JohnDoe])
          /\ result[c].parsed.success
          /\ result[c].parsed.data = Obj([id |-> Num1])

\* what ZodSchemaValidatedAction.execute returns for the payload p when the
\* wrapped action resolves with a record that holds r
ActionReference(p, r) ==
    LET input == SafeParseImpl(payloadSchema,
                               Obj(StripEntries(Spread(p), payloadSchema, 1)))
        output == SafeParseImpl(objectSchema, ResponseData(r))
    IN  IF ~input.success THEN FailureResponse(input.errors)
        ELSE IF ~output.success THEN FailureResponse(output.errors)
        ELSE Put(r, "data", output.data)

\* what ZodSchemaValidatedService.execute returns for the payload p when
\* the wrapped service resolves with v
ServiceReference(p, v) ==
    LET input == SafeParseImpl(payloadSchema, p)
    IN  IF ~input.success THEN input ELSE SafeParseImpl(objectSchema, v)

\* C14: every call of an ActionTool's execute returns what
\* ZodSchemaValidatedAction.execute returns for the same payload and wrapped
\* response, and every call of a ServiceTool's execute what
\* ZodSchemaValidatedService.execute returns; parameters is the input
\* schema, and name and description are those given to the constructor,
\* whatever calls were made.
C14_ToolDelegates ==
    /\ tool.parameters = payloadSchema
    /\ tool.name = ToolArguments(tool.class).name
    /\ tool.description = ToolArguments(tool.class).description
    /\ \A c \in Calls :
          pc[c] = "returned" =>
              IF tool.class = "ActionTool"
              THEN /\ convention[c] = "action"
                   /\ Returned(c) = ActionReference(payload[c], response[c].record)
              ELSE /\ convention[c] = "service"
                   /\ result[c].parsed =
                         ServiceReference(payload[c], response[c].value)

C14_Witness ==
    /\ tool.class = "ActionTool"
    /\ tool.name = "CustomActionTool"
    /\ tool.parameters = PersonSchema
    /\ \E c \in Calls : /\ pc[c] = "returned" /\ ~Resolved(c)
                        /\ Returned(c).success = FALSE
    /\ \E c \in Calls : /\ pc[c] = "returned" /\ Resolved(c)
                        /\ Returned(c).success = TRUE
                        /\ Returned(c).data = Obj([id |-> Num1])

\* the call in which the wrapped action created the record object that call
\* c received, and that record as the wrapped action created it
OwnerCall(c) == (response[c].ref + 1) \div 2
Origin(c) == response[OwnerCall(c)].record

\* C15 as stated: for calls interleaved in any way, each returned result is
\* the one the same call produces alone, that is from its payload and the
\* response as the wrapped unit made it, and a result that was returned is
\* still as it was returned; also when calls receive the same record object.
C15_Claim ==
    \A c \in Calls :
        pc[c] = "returned" =>
            IF convention[c] = "action"
            THEN /\ heap[result[c].ref] = Returned(c)
                 /\ Returned(c) =
                       ActionReference(payload[c],
                                       IF Resolved(c) THEN Origin(c) ELSE Free)
            ELSE result[c].parsed =
                    ServiceReference(payload[c], response[c].value)

\* the wrapped unit answered the two calls alike: with the same record
\* object or with records that held the same (Action), with the same value
\* (Service)
SameAnswer(c1, c2) ==
    IF convention[c1] = "action"
    THEN /\ Resolved(c1) /\ Resolved(c2)
         /\ \/ response[c1].ref = response[c2].ref
            \/ response[c1].record = response[c2].record
    ELSE response[c1].value = response[c2].value

\* C16 as stated: two calls of the same convention made one after the other
\* with the same payload, which the input stage accepts, and answered alike
\* by the wrapped unit, returned identical results.
C16_Claim ==
    \A c1, c2 \in Calls :
        (/\ c1 # c2
         /\ pc[c1] = "returned" /\ pc[c2] = "returned"
         /\ convention[c1] = convention[c2]
         /\ payload[c1] = payload[c2]
         /\ parsedPayload[c1].success
         /\ SameAnswer(c1, c2)) =>
            /\ result[c1].record = result[c2].record
            /\ result[c1].parsed = result[c2].parsed

\* C17: when output validation succeeded, the returned record is the record
\* object the wrapped action resolved with; its data is the validated value
\* and every other field, success and messages among them, is as the
\* wrapped action returned it.
C17_SuccessPathFrame ==
    \A c \in Calls :
        (ActionReturned(c) /\ Resolved(c) /\ validatedResponse[c].success) =>
            LET received == response[c].record
            IN  /\ result[c].ref = response[c].ref
                /\ DOMAIN Returned(c) = DOMAIN received \cup {"data"}
                /\ Returned(c).data = validatedResponse[c].data
                /\ \A k \in DOMAIN received \ {"data"} :
                      Returned(c)[k] = received[k]

C17_Witness ==
    \E c \in Calls :
        /\ ActionReturned(c) /\ Resolved(c) /\ validatedResponse[c].success
        /\ response[c].record.success = FALSE
        /\ Returned(c).success = FALSE
        /\ Returned(c).messages = <<UpstreamMessage>>
        /\ Returned(c).data = Obj([id |-> Num1])

\* C18: in every call, input validation is the first step, the wrapped unit
\* is invoked exactly once when the input is valid and not at all when it
\* is not, output validation comes after the wrapped unit completed, and
\* nothing follows it: no step is run twice, whatever the output verdict.
C18_PipelineOnceInOrder ==
    \A c \in Calls :
        Started(c) =>
            /\ trace[c] \in {<<"validateInput">>,
                              <<"validateInput", "invoke">>,
                              <<"validateInput", "invoke", "validateOutput">>}
            /\ Len(invoked[c]) = IF Len(trace[c]) >= 2 THEN 1 ELSE 0
            /\ Len(invoked[c]) = IF InputVerdict(c).success THEN 1 ELSE 0
            /\ pc[c] = "awaiting" =>
                  /\ Len(trace[c]) = 2
                  /\ validatedResponse[c] = NoParse
            /\ Len(trace[c]) = 3 => pc[c] = "returned"

C18_Witness ==
    /\ \E c \in Calls :
          /\ pc[c] = "returned" /\ Len(trace[c]) = 3
          /\ ~validatedResponse[c].success
          /\ Len(invoked[c]) = 1
    /\ \E c \in Calls : pc[c] = "awaiting" /\ Len(invoked[c]) = 1

\* C19 as stated: a payload that the input schema accepts as given is
\* accepted by the input stage of the Action convention's execute.
C19_Claim ==
    \A c \in Calls :
        (convention[c] = "action" /\ Started(c)) =>
            (SafeParseImpl(payloadSchema, payload[c]).success
                => parsedPayload[c].success)

====
